---------------------------- MODULE Spec2Model ----------------------------
(***************************************************************************)
(* Model of drivers/scsi/sg/sg_race_trigger.c: a coordinator (main), a     *)
(* pool of I/O workers (io_worker), one monitor (monitor_worker) that      *)
(* samples /proc/scsi/sg/debug, and the SIGINT/SIGTERM handler (cleanup).  *)
(*                                                                         *)
(* Text is modelled at character level: a C string is a sequence of        *)
(* one-character strings.  A line of the feed is the record                *)
(*   [text |-> <chars>, pad |-> n, nl |-> b]                               *)
(* standing for the characters of text, followed by n filler characters    *)
(* (FILL, which occurs in no marker), followed by a newline when b.        *)
(***************************************************************************)
EXTENDS Integers, Sequences, FiniteSets, TLC

(***************************************************************************)
(* Bounds of the model (not program constants)                             *)
(***************************************************************************)
\* size of the worker pool explored (NUM_THREADS is 8 in the program)
MaxWorkers == 2
\* number of monitor iterations explored (TEST_ITERATIONS is 1000)
MaxIterations == 2
\* period of the progress report explored (100 in the program)
MaxProgressPeriod == 2
\* operations one worker issues while the stop flag is clear
MaxOps == 1
\* consecutive failed opens of the feed
MaxFeedFailures == 1
\* failed opens of the bug log by log_debug_snapshot in one run
MaxLogFailures == 1
\* longest opcode text of the parser's sampled lines, the over-long ones apart
MaxHexLen == 2
\* distance of the sampled values of cmd_idx from 0, INT_MAX and INT_MIN
MaxStartOffset == 2

(***************************************************************************)
(* Program constants                                                       *)
(***************************************************************************)
NUM_THREADS == MaxWorkers
TEST_ITERATIONS == MaxIterations
PROGRESS_PERIOD == MaxProgressPeriod
\* elapsed > 10000 is bogus
ANOMALY_THRESHOLD == 10000
\* char line[512], char saved_line[512]
LINE_SIZE == 512
\* char debug_buffer[65536]
DEBUG_BUFFER_SIZE == 65536
\* char opcode[8]
OPCODE_SIZE == 8
\* width of int
INT_BITS == 32

\* an int is held as two limbs of INT_BITS / 2 bits, hi * Limb + lo, so that
\* the arithmetic modulo 2^INT_BITS stays inside the checker's integers
Limb == 2^(INT_BITS \div 2)
INT_MAX == (Limb \div 2 - 1) * Limb + (Limb - 1)
INT_MIN == -INT_MAX - 1

\* the int whose two's complement representation is hi * Limb + lo
FromLimbs(hi, lo) ==
    IF hi >= Limb \div 2 THEN (hi - Limb) * Limb + lo ELSE hi * Limb + lo

\* the limbs of -(hi * Limb + lo) modulo 2^INT_BITS
NegLimbs(hi, lo) ==
    IF lo = 0 THEN [hi |-> (Limb - hi) % Limb, lo |-> 0]
              ELSE [hi |-> Limb - 1 - hi, lo |-> Limb - lo]

(***************************************************************************)
(* Strings                                                                 *)
(***************************************************************************)
FILL == "."
DigitChars == <<"0", "1", "2", "3", "4", "5", "6", "7", "8", "9">>
HexLowerChars == <<"a", "b", "c", "d", "e", "f">>

Range(s) == {s[k] : k \in 1..Len(s)}
IsDigit(c) == c \in Range(DigitChars)
IsSpace(c) == c = " "
DigitVal(c) == (CHOOSE k \in 1..10 : DigitChars[k] = c) - 1
SetMin(S) == CHOOSE x \in S : \A y \in S : x <= y
\* the element of a singleton; {e(x) : x \in {a}} computes a once, as a local
\* variable assigned once and read several times
Only(S) == CHOOSE x \in S : TRUE
Filler(n) == [k \in 1..n |-> FILL]

\* does needle occur in hay at position i
MatchAt(hay, needle, i) ==
    /\ i + Len(needle) - 1 <= Len(hay)
    /\ \A k \in 1..Len(needle) : hay[i + k - 1] = needle[k]

\* strstr: position of the first occurrence of needle in hay, 0 for NULL
strstr(hay, needle) ==
    LET hits == {i \in 1..Len(hay) : MatchAt(hay, needle, i)}
    IN  IF hits = {} THEN 0 ELSE SetMin(hits)

\* the markers the program searches for
ELAP_FRAGMENT == <<"e", "l", "a", "p", "=">>
T_O_ELAP == <<"t", "_", "o", "/", "e", "l", "a", "p", "=">>
OP_0X == <<"o", "p", "=", "0", "x">>

(***************************************************************************)
(* sscanf directives                                                       *)
(***************************************************************************)
RECURSIVE SkipSpace(_, _)
SkipSpace(s, i) ==
    IF i <= Len(s) /\ IsSpace(s[i]) THEN SkipSpace(s, i + 1) ELSE i

RECURSIVE DigitsEnd(_, _)
DigitsEnd(s, i) ==
    IF i <= Len(s) /\ IsDigit(s[i]) THEN DigitsEnd(s, i + 1) ELSE i

\* the decimal digits s[i..j-1] as an unsigned value modulo 2^INT_BITS
RECURSIVE DecLimbs(_, _, _, _, _)
DecLimbs(s, i, j, hi, lo) ==
    IF i >= j THEN [hi |-> hi, lo |-> lo]
    ELSE LET l == 10 * lo + DigitVal(s[i])
         IN  DecLimbs(s, i + 1, j, (10 * hi + l \div Limb) % Limb, l % Limb)

\* %d at position i of s: skips white space, takes an optional sign and a
\* non-empty run of digits, and stores the value in an int (a value that
\* does not fit keeps its low INT_BITS bits)
\* the digits of %d: s[b..e-1], after the sign at a if there is one
ScanDigits(s, i, a, signed, b, e) ==
    LET mag == DecLimbs(s, b, e, 0, 0)
        v == IF signed /\ s[a] = "-" THEN NegLimbs(mag.hi, mag.lo) ELSE mag
    IN  IF e = b
        THEN [ok |-> FALSE, val |-> 0, next |-> i]
        ELSE [ok |-> TRUE, val |-> FromLimbs(v.hi, v.lo), next |-> e]

\* the optional sign of %d, at a
ScanSigned(s, i, a) ==
    LET signed == a <= Len(s) /\ s[a] \in {"+", "-"}
        b == IF signed THEN a + 1 ELSE a
    IN  Only({ScanDigits(s, i, a, signed, b, e) : e \in {DigitsEnd(s, b)}})

ScanInt(str, pos) ==
    Only({Only({ScanSigned(s, i, a) : a \in {SkipSpace(s, i)}})
            : s \in {str}, i \in {pos}})

\* sscanf(p, "t_o/elap=%d/%dms", &timeout, &elapsed), p pointing at the
\* marker: the number of items assigned and their values
\* the literal / and the second %d, after the first conversion t
ScanSecond(p, t) ==
    LET slash == t.ok /\ t.next <= Len(p) /\ p[t.next] = "/"
        e == IF slash THEN ScanInt(p, t.next + 1)
                      ELSE [ok |-> FALSE, val |-> 0, next |-> 0]
    IN  IF ~t.ok THEN [n |-> 0, timeout |-> 0, elapsed |-> 0]
        ELSE IF ~e.ok THEN [n |-> 1, timeout |-> t.val, elapsed |-> 0]
        ELSE [n |-> 2, timeout |-> t.val, elapsed |-> e.val]

ScanElapsed(ptr) ==
    Only({Only({ScanSecond(p, t) : t \in {ScanInt(p, Len(T_O_ELAP) + 1)}})
            : p \in {ptr}})

Suffix(s, i) == SubSeq(s, i, Len(s))

\* long parse_elapsed(const char *line)
parse_elapsed(line) ==
    Only({IF p = 0 THEN -1
          ELSE Only({IF r.n = 2 THEN r.elapsed ELSE -1
                       : r \in {ScanElapsed(Suffix(l, p))}})
            : l \in {line}, p \in {strstr(line, T_O_ELAP)}})

RECURSIVE TokenEnd(_, _)
TokenEnd(s, i) ==
    IF i <= Len(s) /\ ~IsSpace(s[i]) THEN TokenEnd(s, i + 1) ELSE i

\* %s at position i of s: skips white space and takes the run of characters
\* up to the next white space; empty when the input ends first
ScanToken(s, i) ==
    LET a == SkipSpace(s, i) IN SubSeq(s, a, TokenEnd(s, a) - 1)

\* the test of get_opcode's loop: the character is kept
IsOpcodeChar(c) == IsDigit(c) \/ c \in Range(HexLowerChars)

RECURSIVE OpcodeRunEnd(_, _)
OpcodeRunEnd(s, i) ==
    IF i <= Len(s) /\ IsOpcodeChar(s[i]) THEN OpcodeRunEnd(s, i + 1) ELSE i

\* the loop of get_opcode: opcode cut at the first character it rejects
TruncateOpcode(tok) == SubSeq(tok, 1, OpcodeRunEnd(tok, 1) - 1)

UNKNOWN_OPCODE == <<"?", "?">>

\* contents an uninitialised char opcode[8] may hold
IndeterminateOpcodes == {<<>>, <<"0", "a">>, <<"z">>}

\* the contents opcode may have once the token tok after the marker at p has
\* been scanned into it and cut.  A token that fills the 8 bytes or more is
\* written past the array, and no token leaves the array as it was
\* (uninitialised in monitor_worker): both are undefined, any of the listed
\* contents may result.
OpcodeOf(p, tok) ==
    IF p = 0 THEN {UNKNOWN_OPCODE}
    ELSE IF tok = <<>> THEN {TruncateOpcode(o) : o \in IndeterminateOpcodes}
    ELSE IF Len(tok) >= OPCODE_SIZE
         THEN {TruncateOpcode(tok),
               TruncateOpcode(SubSeq(tok, 1, OPCODE_SIZE - 1))}
              \cup {TruncateOpcode(o) : o \in IndeterminateOpcodes}
    ELSE {TruncateOpcode(tok)}

\* void get_opcode(const char *line, char *opcode)
get_opcode(line) ==
    Only({Only({OpcodeOf(p, tok) : tok \in {ScanToken(l, p + Len(OP_0X))}})
            : l \in {line}, p \in {strstr(line, OP_0X)}})

(***************************************************************************)
(* The feed (/proc/scsi/sg/debug) and its capture                          *)
(***************************************************************************)
Line(text, pad, nl) == [text |-> text, pad |-> pad, nl |-> nl]

\* characters of a line before its newline, and with it
LineBody(l) == Len(l.text) + l.pad
LineLen(l) == LineBody(l) + (IF l.nl THEN 1 ELSE 0)
LineChars(l) == l.text \o Filler(l.pad)

\* the first n characters of line l, n < LineLen(l)
TruncateLine(l, n) ==
    IF n <= Len(l.text) THEN Line(SubSeq(l.text, 1, n), 0, FALSE)
                        ELSE Line(l.text, n - Len(l.text), FALSE)

SetMin2(a, b) == IF a <= b THEN a ELSE b

CeilDiv(a, b) == (a + b - 1) \div b

\* the loop  while (fgets(line, sizeof(line), fp) && buf_pos < sizeof(debug_buffer) - 512)
\* over the rem characters of one line: fgets returns the line in chunks of
\* at most LINE_SIZE - 1 characters (it stops after a newline), and chunk k
\* (k = 0, 1, ...) is copied only if buf_pos + k * (LINE_SIZE - 1) is below
\* the limit.  Result: buf_pos after the line, and whether the whole line
\* was copied.
CopyChunks(rem, buf_pos) ==
    LET limit == DEBUG_BUFFER_SIZE - 512
        chunk == LINE_SIZE - 1
        chunks == CeilDiv(rem, chunk)
        room == IF buf_pos < limit THEN CeilDiv(limit - buf_pos, chunk) ELSE 0
    IN  IF chunks <= room
        THEN [buf_pos |-> buf_pos + rem, whole |-> TRUE]
        ELSE [buf_pos |-> buf_pos + room * chunk, whole |-> FALSE]

\* contents of debug_buffer after the capture loop has read lines i.. of f
RECURSIVE CaptureFrom(_, _, _)
CaptureFrom(f, i, buf_pos) ==
    IF i > Len(f) THEN <<>>
    ELSE LET r == CopyChunks(LineLen(f[i]), buf_pos)
         IN  IF r.whole THEN <<f[i]>> \o CaptureFrom(f, i + 1, r.buf_pos)
             ELSE IF r.buf_pos = buf_pos THEN <<>>
             ELSE <<TruncateLine(f[i], r.buf_pos - buf_pos)>>

Capture(f) == CaptureFrom(f, 1, 0)

\* sample fields
N60000 == <<"6", "0", "0", "0", "0">>
Timing(t, e) == T_O_ELAP \o t \o <<"/">> \o e \o <<"m", "s">>
OpTiming(h, e) == OP_0X \o h \o <<" ">> \o Timing(N60000, e)

\* sample lines
LnHeader == Line(<<"d", "e", "v", "=", "s", "g", "0">>, 0, TRUE)
LnZero == Line(OpTiming(<<"0", "0">>, <<"0">>), 0, TRUE)
LnFifty == Line(OpTiming(<<"0", "0">>, <<"5", "0">>), 0, TRUE)
LnAtThreshold == Line(OpTiming(<<"0", "8">>, <<"1", "0", "0", "0", "0">>), 0, TRUE)
LnOverThreshold == Line(OpTiming(<<"0", "a">>, <<"1", "0", "0", "0", "1">>), 0, TRUE)
LnNegative == Line(OpTiming(<<"0", "8">>, <<"-", "1">>), 0, TRUE)
LnScenarioA == Line(OpTiming(<<"0", "a">>, <<"1", "5", "0", "0", "0">>), 0, TRUE)
LnFragment == Line(<<"d", "u", "r", " ">> \o ELAP_FRAGMENT \o <<"5", "m", "s">>, 0, TRUE)
LnScenarioD == Line(OP_0X \o <<"Z", "Z", " ">> \o T_O_ELAP \o <<"a", "b", "c", "/", "m", "s">>, 0, TRUE)
LnLong == Line(OpTiming(<<"0", "a">>, <<"1", "5", "0", "0", "0">>), LINE_SIZE, TRUE)
LnNoNewline == Line(OpTiming(<<"0", "a">>, <<"1", "5", "0", "0", "0">>), 0, FALSE)
LnWide == Line(OpTiming(<<"0", "a">>, <<"4", "2", "9", "4", "9", "6", "7", "2", "9", "7">>), 0, TRUE)
\* a line that is longer than debug_buffer
LnHuge == Line(<<"d", "e", "v", "=", "s", "g", "0">>, DEBUG_BUFFER_SIZE, TRUE)

\* the feeds the resource may deliver
FeedQuiet == <<LnHeader, LnZero, LnAtThreshold, LnFifty>>
FeedBogus == <<LnFifty, LnOverThreshold>>
FeedOdd == <<LnFragment, LnScenarioD>>
FeedSkipped == <<LnWide, LnLong, LnNoNewline>>
FeedOverCapacity == <<LnNegative, LnHuge, LnScenarioA>>
Feeds == {FeedQuiet, FeedBogus, FeedOdd, FeedSkipped, FeedOverCapacity}

(***************************************************************************)
(* State                                                                   *)
(***************************************************************************)
VARIABLES
    keep_running,       \* volatile int keep_running
    bugs_found,         \* int bugs_found
    mutex,              \* pthread_mutex_t mutex: "free" or the holder
    bugLog,             \* contents of bug_find.log: a sequence of blocks
    handlers,           \* cleanup installed for SIGINT and SIGTERM
    device,             \* the scsi_debug device: "none", "missing", "ready", "released"
    logCreated,         \* main's fopen(BUG_LOG_FILE, "w") succeeded
    mainPC,             \* position of main
    mainIdx,            \* int i of main's loops
    exitStatus,         \* exit status of the process, -1 while it runs
    reportedTotal,      \* "Total bugs found: %d", -1 before the summary
    wPC,                \* position of each io_worker
    wFd,                \* int fd of each io_worker: "none", "open", "failed", "closed"
    cmd_idx,            \* int cmd_idx of each io_worker
    wIssued,            \* the operations each io_worker has issued, in order
    monPC,              \* position of monitor_worker
    iteration,          \* int iteration
    feed,               \* what the resource delivered at the last capture
    debug_buffer,       \* char debug_buffer[65536], as a sequence of lines
    lineIdx,            \* line_ptr: index of the line it points at
    elapsed,            \* long elapsed of the line being recorded
    opcode,             \* char opcode[8] of the line being recorded
    progress,           \* the last "[Progress: ...]" report printed
    feedFailures,       \* history: failed opens of the feed
    logFailures,        \* history: failed opens of the bug log for an event
    everFlagged,        \* history: some line satisfied the anomaly test
    recorded,           \* history: lines of the current feed recorded as events
    opsAfterStop,       \* history: operations each worker began with the flag set
    capturesAfterStop   \* history: feed opens the monitor began with the flag set

sharedVars == <<keep_running, bugs_found, mutex, bugLog>>
mainVars == <<handlers, device, logCreated, mainPC, mainIdx, exitStatus, reportedTotal>>
workerVars == <<wPC, wFd, cmd_idx, wIssued, opsAfterStop>>
monLocals == <<iteration, feed, debug_buffer, lineIdx, elapsed, opcode, progress>>
monHistory == <<feedFailures, logFailures, everFlagged, recorded, capturesAfterStop>>
monVars == <<monPC, monLocals, monHistory>>
vars == <<sharedVars, mainVars, workerVars, monVars>>

Workers == 1..NUM_THREADS

HeaderBlock == [kind |-> "header"]
EventBlock(it, el, op, snapshot) ==
    [kind |-> "event", iteration |-> it, elapsed |-> el, opcode |-> op,
     snapshot |-> snapshot]
EventBlocks(log) == {k \in 1..Len(log) : log[k].kind = "event"}

Init ==
    /\ keep_running = 1
    /\ bugs_found = 0
    /\ mutex = "free"
    /\ bugLog = <<>>
    /\ handlers = FALSE
    /\ device = "none"
    /\ logCreated = FALSE
    /\ mainPC = "signal"
    /\ mainIdx = 0
    /\ exitStatus = -1
    /\ reportedTotal = -1
    /\ wPC = [w \in Workers |-> "none"]
    /\ wFd = [w \in Workers |-> "none"]
    /\ cmd_idx = [w \in Workers |-> 0]
    /\ wIssued = [w \in Workers |-> <<>>]
    /\ monPC = "none"
    /\ iteration = 0
    /\ feed = <<>>
    /\ debug_buffer = <<>>
    /\ lineIdx = 1
    /\ elapsed = 0
    /\ opcode = <<>>
    /\ progress = <<>>
    /\ feedFailures = 0
    /\ logFailures = 0
    /\ everFlagged = FALSE
    /\ recorded = {}
    /\ opsAfterStop = [w \in Workers |-> 0]
    /\ capturesAfterStop = 0

(***************************************************************************)
(* The signal handler                                                      *)
(***************************************************************************)
\* cleanup as it would be if the handler toggled the flag
cleanup_Toggle ==
    /\ keep_running' = 1 - keep_running
    /\ UNCHANGED <<bugs_found, mutex, bugLog, mainVars, workerVars, monVars>>

\* void cleanup(int sig)
cleanup ==
    /\ keep_running' = 0
    /\ UNCHANGED <<bugs_found, mutex, bugLog, mainVars, workerVars, monVars>>

\* SIGINT or SIGTERM is delivered while the process runs with the handler
\* installed
Interrupt ==
    /\ handlers
    /\ mainPC \notin {"done", "exited"}
    /\ cleanup

(***************************************************************************)
(* io_worker                                                               *)
(***************************************************************************)
\* the open as it would be if a failure stopped the whole harness
WorkerOpen_FailureStops(w) ==
    /\ wPC[w] = "open"
    /\ \/ /\ wFd' = [wFd EXCEPT ![w] = "open"]
          /\ cmd_idx' = [cmd_idx EXCEPT ![w] = 0]
          /\ wPC' = [wPC EXCEPT ![w] = "test"]
          /\ UNCHANGED keep_running
       \/ /\ wFd' = [wFd EXCEPT ![w] = "failed"]
          /\ wPC' = [wPC EXCEPT ![w] = "done"]
          /\ keep_running' = 0
          /\ UNCHANGED cmd_idx
    /\ UNCHANGED <<wIssued, opsAfterStop, bugs_found, mutex, bugLog, mainVars, monVars>>

\* int fd = open(device_path, O_RDWR | O_NONBLOCK); if (fd < 0) return NULL;
WorkerOpen(w) ==
    /\ wPC[w] = "open"
    /\ \/ /\ wFd' = [wFd EXCEPT ![w] = "open"]
          /\ cmd_idx' = [cmd_idx EXCEPT ![w] = 0]
          /\ wPC' = [wPC EXCEPT ![w] = "test"]
       \/ /\ wFd' = [wFd EXCEPT ![w] = "failed"]
          /\ wPC' = [wPC EXCEPT ![w] = "done"]
          /\ UNCHANGED cmd_idx
    /\ UNCHANGED <<wIssued, opsAfterStop, sharedVars, mainVars, monVars>>

\* the loop test as it would be if the flag were read only before the first
\* operation (a read hoisted out of the loop)
WorkerLoopTest_ReadOnce(w) ==
    /\ wPC[w] = "test"
    /\ Len(wIssued[w]) < MaxOps + 2
    /\ IF keep_running # 0 \/ Len(wIssued[w]) > 0
       THEN /\ wPC' = [wPC EXCEPT ![w] = "send"]
            /\ UNCHANGED wFd
       ELSE /\ wFd' = [wFd EXCEPT ![w] = "closed"]
            /\ wPC' = [wPC EXCEPT ![w] = "done"]
    /\ UNCHANGED <<cmd_idx, wIssued, opsAfterStop, sharedVars, mainVars, monVars>>

\* the loop test as it would be if the loop were while (1)
WorkerLoopTest_IgnoresFlag(w) ==
    /\ wPC[w] = "test"
    /\ Len(wIssued[w]) < MaxOps
    /\ wPC' = [wPC EXCEPT ![w] = "send"]
    /\ UNCHANGED <<wFd, cmd_idx, wIssued, opsAfterStop, sharedVars, mainVars, monVars>>

\* while (keep_running): the test passes and the body is entered, or it
\* fails and the worker leaves: close(fd); return NULL;
WorkerLoopTest(w) ==
    /\ wPC[w] = "test"
    /\ keep_running # 0 => Len(wIssued[w]) < MaxOps
    /\ IF keep_running # 0
       THEN /\ wPC' = [wPC EXCEPT ![w] = "send"]
            /\ UNCHANGED wFd
       ELSE /\ wFd' = [wFd EXCEPT ![w] = "closed"]
            /\ wPC' = [wPC EXCEPT ![w] = "done"]
    /\ UNCHANGED <<cmd_idx, wIssued, opsAfterStop, sharedVars, mainVars, monVars>>

\* the case of  switch (cmd_idx++ % 3)  taken for value c of cmd_idx: the
\* command sent and its transfer direction; % truncates towards zero
CRem(a, b) == IF a >= 0 \/ a % b = 0 THEN a % b ELSE (a % b) - b
Command(c) ==
    CASE CRem(c, 3) = 0 -> <<[cmd |-> "test_unit_ready", dir |-> "SG_DXFER_NONE"]>>
      [] CRem(c, 3) = 1 -> <<[cmd |-> "read6", dir |-> "SG_DXFER_FROM_DEV"]>>
      [] CRem(c, 3) = 2 -> <<[cmd |-> "write6", dir |-> "SG_DXFER_TO_DEV"]>>
      [] OTHER -> <<>>

\* cmd_idx++: the values cmd_idx may have afterwards (signed overflow is
\* undefined: a build wraps, or keeps the rotation going as if it had not)
PostIncrement(c) == IF c < INT_MAX THEN {c + 1} ELSE {INT_MIN, CRem(c, 3) + 1}

\* void send_scsi_cmd(int fd, unsigned char *cmd, int dxfer_direction): the
\* operations the calls made, each with what ioctl(fd, SG_IO, &io) returned,
\* which the function does not look at
send_scsi_cmd(calls, rc) == [k \in 1..Len(calls) |-> [op |-> calls[k], rc |-> rc]]

\* the operation as it would be if a worker counted its failed operations
\* in bugs_found
WorkerSend_CountsFailures(w) ==
    /\ wPC[w] = "send"
    /\ \E c \in PostIncrement(cmd_idx[w]) : cmd_idx' = [cmd_idx EXCEPT ![w] = c]
    /\ \E rc \in {0, -1} :
          /\ wIssued' = [wIssued EXCEPT ![w] = @ \o send_scsi_cmd(Command(cmd_idx[w]), rc)]
          /\ bugs_found' = IF rc < 0 THEN bugs_found + 1 ELSE bugs_found
    /\ opsAfterStop' = [opsAfterStop EXCEPT
                           ![w] = IF keep_running = 0 THEN @ + 1 ELSE @]
    /\ wPC' = [wPC EXCEPT ![w] = "test"]
    /\ UNCHANGED <<wFd, keep_running, mutex, bugLog, mainVars, monVars>>

\* switch (cmd_idx++ % 3) { ... send_scsi_cmd(fd, ...) ... } usleep(100);
WorkerSend(w) ==
    /\ wPC[w] = "send"
    /\ \E c \in PostIncrement(cmd_idx[w]) : cmd_idx' = [cmd_idx EXCEPT ![w] = c]
    /\ \E rc \in {0, -1} :
          wIssued' = [wIssued EXCEPT ![w] = @ \o send_scsi_cmd(Command(cmd_idx[w]), rc)]
    /\ opsAfterStop' = [opsAfterStop EXCEPT
                           ![w] = IF keep_running = 0 THEN @ + 1 ELSE @]
    /\ wPC' = [wPC EXCEPT ![w] = "test"]
    /\ UNCHANGED <<wFd, sharedVars, mainVars, monVars>>

(***************************************************************************)
(* monitor_worker                                                          *)
(***************************************************************************)
\* while (keep_running && iteration < TEST_ITERATIONS)
MonLoopTest ==
    /\ monPC = "test"
    /\ monPC' = IF keep_running # 0 /\ iteration < TEST_ITERATIONS
                THEN "fopen" ELSE "exit"
    /\ UNCHANGED <<monLocals, monHistory, sharedVars, mainVars, workerVars>>

\* the failed open as it would be if it counted as an iteration
MonCaptureFail_Counted ==
    /\ feedFailures < MaxFeedFailures
    /\ feedFailures' = feedFailures + 1
    /\ iteration' = iteration + 1
    /\ monPC' = "test"
    /\ UNCHANGED <<feed, debug_buffer, lineIdx, elapsed, opcode, progress,
                   logFailures, everFlagged, recorded>>

\* fp = fopen(PROC_DEBUG, "r") fails: perror, sleep(1), continue
MonCaptureFail ==
    /\ feedFailures < MaxFeedFailures
    /\ feedFailures' = feedFailures + 1
    /\ monPC' = "test"
    /\ UNCHANGED <<monLocals, logFailures, everFlagged, recorded>>

\* fopen succeeds: debug_buffer is zeroed, the feed f is read into it by the
\* fgets loop, fclose; line_ptr = debug_buffer
MonCaptureRead(f) ==
    /\ feed' = f
    /\ debug_buffer' = Capture(f)
    /\ lineIdx' = 1
    /\ recorded' = {}
    /\ feedFailures' = 0
    /\ monPC' = "scan"
    /\ UNCHANGED <<iteration, elapsed, opcode, progress, logFailures, everFlagged>>

MonCapture ==
    /\ monPC = "fopen"
    /\ capturesAfterStop' = IF keep_running = 0 THEN capturesAfterStop + 1
                            ELSE capturesAfterStop
    /\ \/ MonCaptureFail
       \/ \E f \in Feeds : MonCaptureRead(f)
    /\ UNCHANGED <<sharedVars, mainVars, workerVars>>

\* if (line_len < sizeof(saved_line))
FitsSavedLine(l) == LineBody(l) < LINE_SIZE

\* if (strstr(saved_line, "elap="))
HasElapField(saved_line) == strstr(saved_line, ELAP_FRAGMENT) # 0

\* if (elapsed < 0 || elapsed > 10000)
IsBogus(e) == e < 0 \/ e > ANOMALY_THRESHOLD

\* the body of the line loop decides to record the line l
LineFlagged(l) ==
    /\ FitsSavedLine(l)
    /\ HasElapField(LineChars(l))
    /\ IsBogus(parse_elapsed(LineChars(l)))

\* the line loop from line i on: the index of the first line it records, or
\* of the line at which it ends (one past the buffer, or a line without
\* a newline); the lines in between are examined and passed over
RECURSIVE ScanTo(_, _)
ScanTo(buf, i) ==
    IF i <= Len(buf) /\ buf[i].nl /\ ~LineFlagged(buf[i])
    THEN ScanTo(buf, i + 1)
    ELSE i

\* what the line loop does from line i of buffer buf on: the line it stops
\* at, whether it records that line, and then the elapsed value and the
\* opcodes get_opcode may return for it
\* the line loop stops at line j of buf
ScanStop(buf, j) ==
    LET hit == j <= Len(buf) /\ buf[j].nl
    IN  [to |-> j,
         hit |-> hit,
         elapsed |-> IF hit THEN parse_elapsed(LineChars(buf[j])) ELSE 0,
         opcodes |-> IF hit THEN get_opcode(LineChars(buf[j])) ELSE {}]

ScanStep(buf, i) == Only({ScanStop(buf, j) : j \in {ScanTo(buf, i)}})

\* ScanStep, tabulated for the buffers the feeds of the model give
Buffers == {Capture(f) : f \in Feeds}
ScanTable == [buf \in Buffers |-> [i \in 1..(Len(buf) + 1) |-> ScanStep(buf, i)]]

\* the line loop, from line_ptr up to the pthread_mutex_lock of the next
\* line it records, or to its end
MonScan ==
    /\ monPC = "scan"
    /\ LET step == ScanTable[debug_buffer][lineIdx]
       IN  /\ lineIdx' = step.to
           /\ IF step.hit
              THEN /\ elapsed' = step.elapsed
                   /\ opcode' \in step.opcodes
                   /\ everFlagged' = TRUE
                   /\ monPC' = "lock"
              ELSE /\ monPC' = "iterend"
                   /\ UNCHANGED <<elapsed, opcode, everFlagged>>
    /\ UNCHANGED <<iteration, feed, debug_buffer, progress, feedFailures,
                   logFailures, recorded, capturesAfterStop,
                   sharedVars, mainVars, workerVars>>

\* the lock as it would be if the call were missing
MonLock_Missing ==
    /\ monPC = "lock"
    /\ monPC' = "record"
    /\ UNCHANGED <<keep_running, bugs_found, mutex, bugLog, monLocals, monHistory,
                   mainVars, workerVars>>

\* pthread_mutex_lock(&mutex), for an event
MonLock ==
    /\ monPC = "lock"
    /\ mutex = "free"
    /\ mutex' = "monitor"
    /\ monPC' = "record"
    /\ UNCHANGED <<keep_running, bugs_found, bugLog, monLocals, monHistory,
                   mainVars, workerVars>>

\* void log_debug_snapshot(iteration, elapsed, opcode, debug_content): the
\* log after the call; nothing is written when fopen(BUG_LOG_FILE, "a") fails
log_debug_snapshot(log, it, el, op, debug_content, opened) ==
    IF opened THEN Append(log, EventBlock(it, el, op, debug_content)) ELSE log

\* the event as it would be if a failed open of the log made the monitor
\* leave its loop at once, the mutex still held
MonRecord_FailureLeaves ==
    /\ monPC = "record"
    /\ bugs_found' = bugs_found + 1
    /\ \E opened \in BOOLEAN :
          /\ ~opened => logFailures < MaxLogFailures
          /\ logFailures' = IF opened THEN logFailures ELSE logFailures + 1
          /\ bugLog' = log_debug_snapshot(bugLog, iteration, elapsed, opcode,
                                          debug_buffer, opened)
          /\ monPC' = IF opened THEN "unlock" ELSE "exit"
    /\ recorded' = recorded \cup {lineIdx}
    /\ UNCHANGED <<keep_running, mutex, monLocals, feedFailures, everFlagged,
                   capturesAfterStop, mainVars, workerVars>>

\* bugs_found++; log_debug_snapshot(...); printf(...)
MonRecord ==
    /\ monPC = "record"
    /\ bugs_found' = bugs_found + 1
    /\ \E opened \in BOOLEAN :
          /\ ~opened => logFailures < MaxLogFailures
          /\ logFailures' = IF opened THEN logFailures ELSE logFailures + 1
          /\ bugLog' = log_debug_snapshot(bugLog, iteration, elapsed, opcode,
                                          debug_buffer, opened)
    /\ recorded' = recorded \cup {lineIdx}
    /\ monPC' = "unlock"
    /\ UNCHANGED <<keep_running, mutex, monLocals, feedFailures, everFlagged,
                   capturesAfterStop, mainVars, workerVars>>

\* pthread_mutex_unlock(&mutex); line_ptr = next_line + 1
MonUnlock ==
    /\ monPC = "unlock"
    /\ mutex' = "free"
    /\ lineIdx' = lineIdx + 1
    /\ monPC' = "scan"
    /\ UNCHANGED <<keep_running, bugs_found, bugLog, iteration, feed,
                   debug_buffer, elapsed, opcode, progress, monHistory,
                   mainVars, workerVars>>

\* iteration++; if (iteration % 100 == 0) ...; usleep(100): the body of the
\* loop ends, and with it the lifetime of debug_buffer and the other
\* variables declared in it
MonEndIteration ==
    /\ monPC = "iterend"
    /\ iteration' = iteration + 1
    /\ monPC' = IF (iteration + 1) % PROGRESS_PERIOD = 0 THEN "proglock" ELSE "test"
    /\ feed' = <<>>
    /\ debug_buffer' = <<>>
    /\ lineIdx' = 1
    /\ elapsed' = 0
    /\ opcode' = <<>>
    /\ recorded' = {}
    /\ UNCHANGED <<progress, feedFailures, logFailures, everFlagged,
                   capturesAfterStop, sharedVars, mainVars, workerVars>>

\* pthread_mutex_lock(&mutex), for the progress report
MonProgressLock ==
    /\ monPC = "proglock"
    /\ mutex = "free"
    /\ mutex' = "monitor"
    /\ monPC' = "progress"
    /\ UNCHANGED <<keep_running, bugs_found, bugLog, monLocals, monHistory,
                   mainVars, workerVars>>

\* printf("[Progress: ...]"); pthread_mutex_unlock(&mutex); usleep(100)
MonProgressReport ==
    /\ monPC = "progress"
    /\ progress' = <<iteration, TEST_ITERATIONS, bugs_found>>
    /\ mutex' = "free"
    /\ monPC' = "test"
    /\ UNCHANGED <<keep_running, bugs_found, bugLog, iteration, feed,
                   debug_buffer, lineIdx, elapsed, opcode, monHistory,
                   mainVars, workerVars>>

\* the exit as it would be if the monitor returned without touching the flag
MonExit_FlagUntouched ==
    /\ monPC = "exit"
    /\ monPC' = "done"
    /\ UNCHANGED <<keep_running, bugs_found, mutex, bugLog, monLocals, monHistory,
                   mainVars, workerVars>>

\* keep_running = 0; return NULL;
MonExit ==
    /\ monPC = "exit"
    /\ keep_running' = 0
    /\ monPC' = "done"
    /\ UNCHANGED <<bugs_found, mutex, bugLog, monLocals, monHistory,
                   mainVars, workerVars>>

(***************************************************************************)
(* main                                                                    *)
(***************************************************************************)
\* signal(SIGINT, cleanup); signal(SIGTERM, cleanup);
MainInstallHandlers ==
    /\ mainPC = "signal"
    /\ handlers' = TRUE
    /\ mainPC' = "openlog"
    /\ UNCHANGED <<logCreated, device, mainIdx, exitStatus, reportedTotal,
                   sharedVars, workerVars, monVars>>

\* FILE *log_fp = fopen(BUG_LOG_FILE, "w"); the header is written, or a
\* warning is printed and the file is left alone
MainCreateLog ==
    /\ mainPC = "openlog"
    /\ \/ bugLog' = <<HeaderBlock>> /\ logCreated' = TRUE
       \/ UNCHANGED <<bugLog, logCreated>>
    /\ mainPC' = "setup"
    /\ UNCHANGED <<keep_running, bugs_found, mutex, handlers, device, mainIdx,
                   exitStatus, reportedTotal, workerVars, monVars>>

\* setup_device as it would be without the exit(1)
MainSetupDevice_NoExit ==
    /\ mainPC = "setup"
    /\ \/ device' = "ready"
       \/ device' = "missing"
    /\ mainPC' = "spawn"
    /\ UNCHANGED <<handlers, logCreated, mainIdx, exitStatus, reportedTotal,
                   sharedVars, workerVars, monVars>>

\* setup_device(): find_scsi_debug_sg() finds the device, or exit(1)
MainSetupDevice ==
    /\ mainPC = "setup"
    /\ \/ /\ device' = "ready"
          /\ mainPC' = "spawn"
          /\ UNCHANGED exitStatus
       \/ /\ device' = "missing"
          /\ exitStatus' = 1
          /\ mainPC' = "exited"
    /\ UNCHANGED <<handlers, logCreated, mainIdx, reportedTotal, sharedVars,
                   workerVars, monVars>>

\* for (i = 0; i < NUM_THREADS; i++) pthread_create(&io_threads[i], ..., io_worker, ...)
MainSpawnWorker ==
    /\ mainPC = "spawn"
    /\ mainIdx < NUM_THREADS
    /\ wPC' = [wPC EXCEPT ![mainIdx + 1] = "open"]
    /\ mainIdx' = mainIdx + 1
    /\ UNCHANGED <<logCreated, handlers, device, mainPC, exitStatus, reportedTotal,
                   wFd, cmd_idx, wIssued, opsAfterStop, sharedVars, monVars>>

\* pthread_create(&monitor_thread, NULL, monitor_worker, NULL)
MainSpawnMonitor ==
    /\ mainPC = "spawn"
    /\ ~(mainIdx < NUM_THREADS)
    /\ monPC' = "test"
    /\ mainPC' = "joinmonitor"
    /\ UNCHANGED <<logCreated, handlers, device, mainIdx, exitStatus, reportedTotal,
                   monLocals, monHistory, sharedVars, workerVars>>

\* pthread_join(monitor_thread, NULL)
MainJoinMonitor ==
    /\ mainPC = "joinmonitor"
    /\ monPC = "done"
    /\ mainPC' = "stop"
    /\ UNCHANGED <<logCreated, handlers, device, mainIdx, exitStatus, reportedTotal,
                   sharedVars, workerVars, monVars>>

\* keep_running = 0;
MainStop ==
    /\ mainPC = "stop"
    /\ keep_running' = 0
    /\ mainIdx' = 0
    /\ mainPC' = "joinworkers"
    /\ UNCHANGED <<logCreated, bugs_found, mutex, bugLog, handlers, device, exitStatus,
                   reportedTotal, workerVars, monVars>>

\* the loop of joins as it would be if the workers were detached instead
MainJoinWorker_NoWait ==
    /\ mainPC = "joinworkers"
    /\ mainIdx < NUM_THREADS
    /\ mainIdx' = mainIdx + 1
    /\ UNCHANGED <<logCreated, handlers, device, mainPC, exitStatus, reportedTotal,
                   sharedVars, workerVars, monVars>>

\* for (i = 0; i < NUM_THREADS; i++) pthread_join(io_threads[i], NULL)
MainJoinWorker ==
    /\ mainPC = "joinworkers"
    /\ mainIdx < NUM_THREADS
    /\ wPC[mainIdx + 1] = "done"
    /\ mainIdx' = mainIdx + 1
    /\ UNCHANGED <<logCreated, handlers, device, mainPC, exitStatus, reportedTotal,
                   sharedVars, workerVars, monVars>>

\* printf("Total bugs found: %d\n", bugs_found) and the verdict
MainSummary ==
    /\ mainPC = "joinworkers"
    /\ ~(mainIdx < NUM_THREADS)
    /\ reportedTotal' = bugs_found
    /\ mainPC' = "cleanup"
    /\ UNCHANGED <<logCreated, handlers, device, mainIdx, exitStatus,
                   sharedVars, workerVars, monVars>>

\* cleanup_device()
MainCleanupDevice ==
    /\ mainPC = "cleanup"
    /\ device' = "released"
    /\ mainPC' = "return"
    /\ UNCHANGED <<logCreated, handlers, mainIdx, exitStatus, reportedTotal,
                   sharedVars, workerVars, monVars>>

\* the return as it would be with the usual convention, 0 for a clean run
MainReturn_Inverted ==
    /\ mainPC = "return"
    /\ exitStatus' = IF bugs_found > 0 THEN 1 ELSE 0
    /\ mainPC' = "done"
    /\ UNCHANGED <<logCreated, handlers, device, mainIdx, reportedTotal,
                   sharedVars, workerVars, monVars>>

\* return (bugs_found > 0) ? 0 : 1;
MainReturn ==
    /\ mainPC = "return"
    /\ exitStatus' = IF bugs_found > 0 THEN 0 ELSE 1
    /\ mainPC' = "done"
    /\ UNCHANGED <<logCreated, handlers, device, mainIdx, reportedTotal,
                   sharedVars, workerVars, monVars>>

(***************************************************************************)
(* Specifications                                                          *)
(***************************************************************************)
Main ==
    \/ MainInstallHandlers \/ MainCreateLog \/ MainSetupDevice
    \/ MainSpawnWorker \/ MainSpawnMonitor \/ MainJoinMonitor \/ MainStop
    \/ MainJoinWorker \/ MainSummary \/ MainCleanupDevice \/ MainReturn

Worker(w) ==
    \/ WorkerOpen(w) \/ WorkerLoopTest(w) \/ WorkerSend(w)

Monitor ==
    \/ MonLoopTest \/ MonCapture \/ MonScan \/ MonLock \/ MonRecord
    \/ MonUnlock \/ MonEndIteration \/ MonProgressLock \/ MonProgressReport
    \/ MonExit

Next ==
    \/ Main
    \/ \E w \in Workers : Worker(w)
    \/ Monitor
    \/ Interrupt

Spec == Init /\ [][Next]_vars

\* every thread that can take a step eventually takes one; signals are not
\* bound to arrive
Fairness ==
    /\ WF_vars(Main)
    /\ \A w \in Workers : WF_vars(Worker(w))
    /\ WF_vars(Monitor)

LiveSpec == Spec /\ Fairness

(***************************************************************************)
(* The parser on its own: parse_elapsed and get_opcode applied to one line  *)
(* of a captured feed, as the line loop applies them, and applied again     *)
(***************************************************************************)
\* opcode texts: hex digits of either case, short ones of every composition
\* and ones that reach or pass the size of opcode[]
HexAlphabet == {"0", "9", "a", "f", "A", "F"}
HexInputs ==
    UNION {[1..n -> HexAlphabet] : n \in 1..MaxHexLen}
    \cup {<<"0", "1", "2", "3", "4", "5", "6">>,
          <<"0", "1", "2", "3", "4", "5", "6", "7">>,
          <<"0", "1", "2", "3", "4", "5", "6", "7", "8">>}

\* elapsed texts: values an int holds
ElapsedInputs ==
    {<<"0">>, <<"5", "0">>, <<"1", "0", "0", "0", "0">>,
     <<"1", "5", "0", "0", "0">>, <<"-", "1">>,
     <<"2", "1", "4", "7", "4", "8", "3", "6", "4", "7">>}

ParserLines == {Line(OpTiming(h, e), 0, TRUE) : h \in HexInputs, e \in ElapsedInputs}

\* the monitor has captured a feed of one line and is at the line loop; main
\* waits for it
ParserInit ==
    /\ keep_running = 1
    /\ bugs_found = 0
    /\ mutex = "free"
    /\ bugLog = <<HeaderBlock>>
    /\ handlers = TRUE
    /\ device = "ready"
    /\ logCreated = TRUE
    /\ mainPC = "joinmonitor"
    /\ mainIdx = NUM_THREADS
    /\ exitStatus = -1
    /\ reportedTotal = -1
    /\ wPC = [w \in Workers |-> "done"]
    /\ wFd = [w \in Workers |-> "failed"]
    /\ cmd_idx = [w \in Workers |-> 0]
    /\ wIssued = [w \in Workers |-> <<>>]
    /\ monPC = "scan"
    /\ iteration = 0
    /\ feed \in {<<l>> : l \in ParserLines}
    /\ debug_buffer = Capture(feed)
    /\ lineIdx = 1
    /\ elapsed = 0
    /\ opcode = <<>>
    /\ progress = <<>>
    /\ feedFailures = 0
    /\ logFailures = 0
    /\ everFlagged = FALSE
    /\ recorded = {}
    /\ opsAfterStop = [w \in Workers |-> 0]
    /\ capturesAfterStop = 0

\* long elapsed = parse_elapsed(saved_line); get_opcode(saved_line, opcode);
ParseCalls ==
    /\ elapsed' = parse_elapsed(LineChars(debug_buffer[lineIdx]))
    /\ opcode' \in get_opcode(LineChars(debug_buffer[lineIdx]))
    /\ UNCHANGED <<iteration, feed, debug_buffer, lineIdx, progress, monHistory,
                   sharedVars, mainVars, workerVars>>

ParseLine ==
    /\ monPC = "scan"
    /\ monPC' = "parsed"
    /\ ParseCalls

\* the same two calls on the same line once more
ParseLineAgain ==
    /\ monPC = "parsed"
    /\ monPC' = "reparsed"
    /\ ParseCalls

ParserNext == ParseLine \/ ParseLineAgain

ParserSpec == ParserInit /\ [][ParserNext]_vars

(***************************************************************************)
(* The workers on their own, from the loop test on, with cmd_idx at values  *)
(* of a short run and of a run long enough for it to overflow               *)
(***************************************************************************)
RotationStarts ==
    UNION {{k, INT_MAX - k, INT_MIN + k} : k \in 0..MaxStartOffset}

\* every worker has opened the device and is at its loop test; wIssued
\* holds the operations issued from here on; main waits for the monitor
RotationInit ==
    /\ keep_running = 1
    /\ bugs_found = 0
    /\ mutex = "free"
    /\ bugLog = <<HeaderBlock>>
    /\ handlers = TRUE
    /\ device = "ready"
    /\ logCreated = TRUE
    /\ mainPC = "joinmonitor"
    /\ mainIdx = NUM_THREADS
    /\ exitStatus = -1
    /\ reportedTotal = -1
    /\ wPC = [w \in Workers |-> "test"]
    /\ wFd = [w \in Workers |-> "open"]
    /\ cmd_idx \in [Workers -> RotationStarts]
    /\ wIssued = [w \in Workers |-> <<>>]
    /\ monPC = "test"
    /\ iteration = 0
    /\ feed = <<>>
    /\ debug_buffer = <<>>
    /\ lineIdx = 1
    /\ elapsed = 0
    /\ opcode = <<>>
    /\ progress = <<>>
    /\ feedFailures = 0
    /\ logFailures = 0
    /\ everFlagged = FALSE
    /\ recorded = {}
    /\ opsAfterStop = [w \in Workers |-> 0]
    /\ capturesAfterStop = 0

RotationNext ==
    \/ \E w \in Workers : WorkerLoopTest(w) \/ WorkerSend(w)
    \/ Interrupt

RotationSpec == RotationInit /\ [][RotationNext]_vars

(***************************************************************************)
(* What a line of the feed says, read off its text without the program's   *)
(* parser                                                                  *)
(***************************************************************************)
\* the decimal digits s[i..j-1] as hi * Limb + lo, hi not reduced
RECURSIVE DecWide(_, _, _, _, _)
DecWide(s, i, j, hi, lo) ==
    IF i >= j THEN [hi |-> hi, lo |-> lo]
    ELSE LET l == 10 * lo + DigitVal(s[i])
         IN  DecWide(s, i + 1, j, 10 * hi + l \div Limb, l % Limb)

\* the timing field of a line, t_o/elap=<timeout>/<elapsed>ms with <timeout>
\* a run of digits and <elapsed> a run of digits with an optional minus sign:
\* whether the line has the marker, whether the field is well formed, and
\* then the sign and the magnitude of <elapsed>.  The padding of a line holds
\* no character of a field, so the field lies in l.text.
TimingField(l) ==
    LET s == l.text
        p == strstr(s, T_O_ELAP)
        t0 == p + Len(T_O_ELAP)
        t1 == DigitsEnd(s, t0)
        neg == t1 + 1 <= Len(s) /\ s[t1 + 1] = "-"
        e0 == IF neg THEN t1 + 2 ELSE t1 + 1
        e1 == DigitsEnd(s, e0)
        formed == /\ p # 0
                  /\ t1 > t0
                  /\ t1 <= Len(s) /\ s[t1] = "/"
                  /\ e1 > e0
                  /\ e1 + 1 <= Len(s) /\ s[e1] = "m" /\ s[e1 + 1] = "s"
    IN  [marker |-> p # 0,
         formed |-> formed,
         neg |-> formed /\ neg,
         mag |-> IF formed THEN DecWide(s, e0, e1, 0, 0) ELSE [hi |-> 0, lo |-> 0]]

\* e < 0 or e > 10000 for the elapsed value e of a well-formed field
FieldBogus(tf) ==
    IF tf.neg THEN tf.mag.hi > 0 \/ tf.mag.lo > 0
              ELSE tf.mag.hi > 0 \/ tf.mag.lo > ANOMALY_THRESHOLD

\* the line loop of the current iteration has ended
LinesDone == monPC = "iterend"

\* the run is over: main has returned
RunComplete == mainPC = "done"

(***************************************************************************)
(* C1                                                                      *)
(***************************************************************************)
\* C1: after any completed run, also one in which opening the bug log failed
\* for some event, bugs_found equals the number of event blocks that
\* log_debug_snapshot appended to the bug log.
C1_CounterEqualsLogRecords ==
    RunComplete => bugs_found = Cardinality(EventBlocks(bugLog))

(***************************************************************************)
(* C2                                                                      *)
(***************************************************************************)
\* C2: once keep_running is 0 it stays 0: no step of the monitor, a worker,
\* main or the signal handler sets it back.
C2_StopFlagStaysSet == [][keep_running = 0 => keep_running' = 0]_vars

\* a run stopped by a signal before the last iteration has completed, a
\* worker having issued an operation after the flag was set
C2_Witness ==
    /\ RunComplete
    /\ keep_running = 0
    /\ iteration < TEST_ITERATIONS
    /\ \E w \in Workers : opsAfterStop[w] = 1

(***************************************************************************)
(* C3                                                                      *)
(***************************************************************************)
\* C3: when the monitor has gone through a feed, every line of the feed
\* whose timing field is well formed, with elapsed value e, has been recorded
\* as an anomaly if and only if e < 0 or e > 10000.
C3_FlaggedIffOutOfRange ==
    LinesDone =>
        \A k \in 1..Len(feed) :
            TimingField(feed[k]).formed =>
                (k \in recorded <=> FieldBogus(TimingField(feed[k])))

(***************************************************************************)
(* C4                                                                      *)
(***************************************************************************)
\* C4: a line of the feed that does not contain the marker t_o/elap= (a
\* line with only the fragment elap= included) is never recorded: no
\* increment of the counter, no block in the bug log.
C4_NoMarkerNoEvent ==
    LinesDone =>
        \A k \in 1..Len(feed) :
            ~TimingField(feed[k]).marker => k \notin recorded

(***************************************************************************)
(* C5                                                                      *)
(***************************************************************************)
\* C5: a line of the feed that contains the marker t_o/elap= with malformed
\* or truncated values is never recorded: no increment of the counter, no
\* block in the bug log.
C5_MalformedNoEvent ==
    LinesDone =>
        \A k \in 1..Len(feed) :
            (TimingField(feed[k]).marker /\ ~TimingField(feed[k]).formed)
                => k \notin recorded

(***************************************************************************)
(* C6                                                                      *)
(***************************************************************************)
\* the exit status is 0 exactly when the total main read after the joins
\* is positive
ExitStatusReflectsTotal == exitStatus = 0 <=> reportedTotal > 0

\* C6, as claimed: the exit status is 0 if and only if the counter main read
\* after the joins is positive; a run in which no line was flagged ends with
\* a reported total of 0, a non-zero exit status and a bug log that holds the
\* start-of-run header and nothing else.
C6_QuietRunLeavesHeaderOnly ==
    RunComplete =>
        /\ ExitStatusReflectsTotal
        /\ ~everFlagged =>
              /\ reportedTotal = 0
              /\ exitStatus # 0
              /\ bugLog = <<HeaderBlock>>

\* C6, amended: as above, except that the bug log holds no event block, and
\* holds the start-of-run header and nothing else provided main's fopen of
\* the log succeeded.
C6_QuietRunLeavesNoEvent ==
    RunComplete =>
        /\ ExitStatusReflectsTotal
        /\ ~everFlagged =>
              /\ reportedTotal = 0
              /\ exitStatus # 0
              /\ EventBlocks(bugLog) = {}
              /\ logCreated => bugLog = <<HeaderBlock>>

\* a run of all the iterations in which no line was flagged
C6_Witness ==
    /\ RunComplete
    /\ iteration = TEST_ITERATIONS
    /\ ~everFlagged
    /\ logCreated
    /\ exitStatus = 1

(***************************************************************************)
(* C7                                                                      *)
(***************************************************************************)
\* C7: if setup_device does not find the device, the process has exited with
\* a non-zero status, and no worker and no monitor has been created and no
\* operation issued.
C7_SetupFailureAborts ==
    device = "missing" =>
        /\ mainPC = "exited"
        /\ exitStatus \notin {-1, 0}
        /\ monPC = "none"
        /\ \A w \in Workers : wPC[w] = "none" /\ wIssued[w] = <<>>

\* the device was not found, after the log had been created
C7_Witness == device = "missing" /\ mainPC = "exited" /\ logCreated

(***************************************************************************)
(* C8                                                                      *)
(***************************************************************************)
\* the monitor is capturing or parsing a feed
MonInIteration == monPC \in {"fopen", "scan", "lock", "record", "unlock"}

\* C8: iteration never exceeds TEST_ITERATIONS and no feed is captured or
\* parsed once it has reached it; a failed open of the feed leaves iteration,
\* the counter, the log and the buffer as they were, and the monitor goes
\* back to the loop test, from which it opens the feed again while the flag
\* is clear and iterations remain.
C8_IterationBound ==
    /\ [](iteration <= TEST_ITERATIONS)
    /\ [](MonInIteration => iteration < TEST_ITERATIONS)
    /\ [][monPC = "fopen" /\ monPC' # "scan" =>
            /\ monPC' \in {"fopen", "test"}
            /\ iteration' = iteration
            /\ bugs_found' = bugs_found
            /\ bugLog' = bugLog
            /\ debug_buffer' = debug_buffer
            /\ recorded' = recorded]_vars
    /\ [][(monPC = "test" /\ monPC' # "test"
            /\ keep_running # 0 /\ iteration < TEST_ITERATIONS)
            => monPC' = "fopen"]_vars

\* a failed open of the feed before the last counted iteration
C8_Witness ==
    /\ monPC = "test"
    /\ feedFailures > 0
    /\ iteration = TEST_ITERATIONS - 1

(***************************************************************************)
(* C9                                                                      *)
(***************************************************************************)
\* C9: with the stop flag set, a worker begins at most one more operation,
\* the one whose loop test it had passed, and is then at the loop test or
\* gone; the monitor opens the feed at most once more, for the iteration
\* whose loop test it had passed.
C9_BoundedCancellation ==
    /\ \A w \in Workers :
          /\ opsAfterStop[w] <= 1
          /\ opsAfterStop[w] = 1 => wPC[w] \in {"test", "done"}
    /\ capturesAfterStop <= 1
    /\ (capturesAfterStop = 1 /\ monPC = "test") => keep_running = 0

\* a worker and the monitor were both past their loop tests when the flag
\* was set, and both have left
C9_Witness ==
    /\ capturesAfterStop = 1
    /\ monPC = "done"
    /\ \E w \in Workers : opsAfterStop[w] = 1 /\ wPC[w] = "done"

(***************************************************************************)
(* C10                                                                     *)
(***************************************************************************)
\* the final summary: monitor and workers terminated and joined, every
\* handle a worker opened closed, the device released
Summary ==
    /\ RunComplete
    /\ reportedTotal >= 0
    /\ monPC = "done"
    /\ \A w \in Workers : wPC[w] = "done" /\ wFd[w] \in {"closed", "failed"}
    /\ device = "released"

\* a step that changes the stop flag changes nothing else of the shared state
FlagChangeOnly ==
    keep_running' # keep_running => UNCHANGED <<bugs_found, mutex, bugLog>>

\* C10, as claimed: under fair scheduling every run reaches the final
\* summary, interrupted or not.
C10_EveryRunReachesSummary == <>Summary /\ [][FlagChangeOnly]_vars

\* C10, amended: under fair scheduling every run in which setup_device finds
\* the device reaches the final summary, interrupted or not.
C10_RunWithDeviceReachesSummary ==
    (device = "ready" ~> Summary) /\ [][FlagChangeOnly]_vars

\* the summary of a run cut short by a signal
C10_Witness ==
    /\ Summary
    /\ iteration < TEST_ITERATIONS
    /\ \E w \in Workers : wFd[w] = "closed"

(***************************************************************************)
(* C11                                                                     *)
(***************************************************************************)
\* a hex digit of either case
IsHexDigit(c) ==
    IsDigit(c) \/ c \in {"a", "b", "c", "d", "e", "f", "A", "B", "C", "D", "E", "F"}

RECURSIVE HexRunEnd(_, _)
HexRunEnd(s, i) ==
    IF i <= Len(s) /\ IsHexDigit(s[i]) THEN HexRunEnd(s, i + 1) ELSE i

\* the longest run of hex digits that follows op=0x in the line
LeadingHexRun(l) ==
    LET s == l.text
        p == strstr(s, OP_0X) + Len(OP_0X)
    IN  SubSeq(s, p, HexRunEnd(s, p) - 1)

\* e is the elapsed value the well-formed timing field tf states
ExactElapsed(tf, e) ==
    /\ tf.mag.hi < Limb \div 2
    /\ e = (IF tf.neg THEN -1 ELSE 1) * (tf.mag.hi * Limb + tf.mag.lo)

\* C11: for a well-formed line with both markers, whatever the length of the
\* opcode text and the case of its hex digits, parse_elapsed returns the
\* elapsed value the line states and get_opcode the longest run of hex
\* digits after op=0x, the first time the line is parsed and every time after.
C11_ParserExact ==
    monPC \in {"parsed", "reparsed"} =>
        /\ ExactElapsed(TimingField(feed[1]), elapsed)
        /\ opcode = LeadingHexRun(feed[1])

(***************************************************************************)
(* C12                                                                     *)
(***************************************************************************)
\* the lines of feed f that state an anomalous elapsed value
AnomalousLines(f) ==
    {k \in 1..Len(f) : TimingField(f[k]).formed /\ FieldBogus(TimingField(f[k]))}

\* C12: when the monitor has gone through a feed, the lines it has recorded
\* as events, one increment and one log_debug_snapshot call each, are exactly
\* the lines of the feed that state an anomalous elapsed value; lines of 512
\* characters or more, a last line without a newline and lines beyond the
\* capacity of debug_buffer included.
C12_OneEventPerAnomalousLine ==
    LinesDone => recorded = AnomalousLines(feed)

(***************************************************************************)
(* C13                                                                     *)
(***************************************************************************)
\* C13: whenever monitor_worker has returned, after TEST_ITERATIONS
\* iterations or after it saw the flag set, keep_running is 0; so it is
\* already 0 when main, having joined the monitor, assigns 0 to it.
C13_MonitorExitSetsFlag ==
    /\ monPC = "done" => keep_running = 0
    /\ mainPC = "stop" => monPC = "done" /\ keep_running = 0

\* the monitor has returned after all its iterations, no signal having
\* arrived up to its last loop test, and main is about to assign the flag
C13_Witness ==
    /\ monPC = "done"
    /\ iteration = TEST_ITERATIONS
    /\ capturesAfterStop = 0
    /\ mainPC = "stop"

(***************************************************************************)
(* C14                                                                     *)
(***************************************************************************)
\* main has joined the monitor and assigned the flag
PastStop == mainPC \in {"joinworkers", "cleanup", "return", "done"}

\* C14: a worker exists only once setup_device has found the device; the
\* monitor exists only once every worker has been created; main joins
\* workers only after the monitor has returned and the flag is 0;
\* cleanup_device has run only after the monitor and every worker have
\* returned, and every operation is issued while the device is there.
C14_CoordinatorOrdering ==
    /\ [](\A w \in Workers : wPC[w] # "none" => device \in {"ready", "released"})
    /\ [](monPC # "none" => \A w \in Workers : wPC[w] # "none")
    /\ [](PastStop => monPC = "done" /\ keep_running = 0)
    /\ [](device = "released" =>
            monPC = "done" /\ \A w \in Workers : wPC[w] = "done")
    /\ [][wIssued' # wIssued => device = "ready" /\ device' = "ready"]_vars

\* the device has been released after a run of all the iterations in which
\* a worker issued operations
C14_Witness ==
    /\ device = "released"
    /\ iteration = TEST_ITERATIONS
    /\ \E w \in Workers : wIssued[w] # <<>>

(***************************************************************************)
(* C15                                                                     *)
(***************************************************************************)
\* the step is worker w's open of the device failing
OpenFails(w) == wFd[w] # "failed" /\ wFd'[w] = "failed"

\* C15: a worker whose open failed has returned without an operation; the
\* step in which the open fails changes nothing but that worker's own state
\* (not the flag, the counter, the log, the monitor, main or another
\* worker); main's pthread_join of such a worker can return; and a step that
\* issues an operation, failed or not, leaves the worker at its loop test
\* with its handle open, a test that ends the loop only when the flag is 0.
C15_WorkerFailureIsLocal ==
    /\ [](\A w \in Workers :
            wFd[w] = "failed" => wPC[w] = "done" /\ wIssued[w] = <<>>)
    /\ [][\A w \in Workers :
            OpenFails(w) =>
                /\ UNCHANGED <<sharedVars, mainVars, monVars>>
                /\ \A v \in Workers \ {w} :
                      wPC'[v] = wPC[v] /\ wFd'[v] = wFd[v] /\ wIssued'[v] = wIssued[v]]_vars
    /\ []((mainPC = "joinworkers" /\ mainIdx < NUM_THREADS
             /\ wFd[mainIdx + 1] = "failed") => ENABLED MainJoinWorker)
    /\ [][\A w \in Workers :
            wIssued'[w] # wIssued[w] => wPC'[w] = "test" /\ wFd'[w] = "open"]_vars
    /\ [][\A w \in Workers :
            (wPC[w] = "test" /\ wPC'[w] = "done") => keep_running = 0]_vars

\* a run of all the iterations, over, in which one worker's open failed and
\* another worker's operation failed
C15_Witness ==
    /\ RunComplete
    /\ iteration = TEST_ITERATIONS
    /\ \E w, v \in Workers :
          /\ wFd[w] = "failed"
          /\ wFd[v] = "closed"
          /\ \E k \in 1..Len(wIssued[v]) : wIssued[v][k].rc = -1

(***************************************************************************)
(* C16                                                                     *)
(***************************************************************************)
\* every thread main created has been joined
AllJoined ==
    /\ monPC = "done"
    /\ \A w \in Workers : wPC[w] = "done"
    /\ mainPC = "joinworkers" /\ mainIdx = NUM_THREADS

\* C16: the mutex is held exactly while the monitor is between a lock and
\* the unlock that follows it; every step that increments bugs_found, appends
\* an event block to the bug log or reads bugs_found for a progress report
\* is a step of the monitor made with the mutex held; main's read of
\* bugs_found for the summary, made without the mutex, is made when the
\* monitor and every worker have been joined.
C16_SinksUnderMutex ==
    /\ [](mutex = "monitor" <=> monPC \in {"record", "unlock", "progress"})
    /\ [](mutex \in {"free", "monitor"})
    /\ [][bugs_found' # bugs_found =>
            mutex = "monitor" /\ mutex' = "monitor" /\ bugs_found' = bugs_found + 1]_vars
    /\ [][EventBlocks(bugLog') # EventBlocks(bugLog) =>
            /\ mutex = "monitor" /\ mutex' = "monitor"
            /\ \E b \in [kind : {"event"}, iteration : {iteration}, elapsed : {elapsed},
                         opcode : {opcode}, snapshot : {debug_buffer}] :
                  bugLog' = Append(bugLog, b)]_vars
    /\ [][progress' # progress => mutex = "monitor" /\ progress'[3] = bugs_found]_vars
    /\ [][reportedTotal' # reportedTotal => AllJoined /\ reportedTotal' = bugs_found]_vars

\* the monitor holds the mutex for an event, having recorded one before,
\* while a worker is about to issue an operation
C16_Witness ==
    /\ mutex = "monitor"
    /\ monPC = "record"
    /\ bugs_found > 0
    /\ \E w \in Workers : wPC[w] = "send"

(***************************************************************************)
(* C17                                                                     *)
(***************************************************************************)
\* the monitor is between the capture of a feed and the end of its line loop
Parsing == monPC \in {"scan", "lock", "record", "unlock"}

\* C17: the captured text does not change from the capture to the end of
\* the line loop, and every event block appended to the bug log carries the
\* iteration in progress and, as its snapshot, the whole feed the resource
\* delivered at the capture of that iteration.
C17_SnapshotIsWholeFeed ==
    /\ [][(Parsing /\ Parsing') =>
            debug_buffer' = debug_buffer /\ feed' = feed /\ iteration' = iteration]_vars
    /\ [][EventBlocks(bugLog') # EventBlocks(bugLog) =>
            /\ bugLog'[Len(bugLog')].iteration = iteration
            /\ bugLog'[Len(bugLog')].snapshot = feed]_vars

\* the same without the last condition: the snapshot is the text captured
C17_SnapshotIsCapture ==
    /\ [][(Parsing /\ Parsing') =>
            debug_buffer' = debug_buffer /\ feed' = feed /\ iteration' = iteration]_vars
    /\ [][EventBlocks(bugLog') # EventBlocks(bugLog) =>
            /\ bugLog'[Len(bugLog')].iteration = iteration
            /\ bugLog'[Len(bugLog')].snapshot = Capture(feed)]_vars

(***************************************************************************)
(* C18                                                                     *)
(***************************************************************************)
\* n mod 3 for the n-th loop iteration of a worker, n < 2^INT_BITS, given the
\* value c its counter has in that iteration: n = c before the counter has
\* wrapped, n = c + 2^INT_BITS after, and 2^INT_BITS mod 3 = 1
IterationMod3(c) == IF c >= 0 THEN c % 3 ELSE ((c % 3) + 1) % 3

\* Probe, ReadOp, WriteOp
Rotation ==
    <<[cmd |-> "test_unit_ready", dir |-> "SG_DXFER_NONE"],
      [cmd |-> "read6", dir |-> "SG_DXFER_FROM_DEV"],
      [cmd |-> "write6", dir |-> "SG_DXFER_TO_DEV"]>>

\* C18: every iteration of a worker's loop issues exactly one operation, the
\* one the rotation gives for the number of the iteration: TEST UNIT READY
\* without transfer, READ(6) from the device, WRITE(6) to the device, for
\* n mod 3 = 0, 1, 2; whatever the value of cmd_idx, wrapped or not.
C18_RotationByIterationNumber ==
    [][\A w \in Workers :
         (wPC[w] = "send" /\ wPC'[w] = "test") =>
             /\ Len(wIssued'[w]) = Len(wIssued[w]) + 1
             /\ SubSeq(wIssued'[w], 1, Len(wIssued[w])) = wIssued[w]
             /\ wIssued'[w][Len(wIssued'[w])].op
                    = Rotation[IterationMod3(cmd_idx[w]) + 1]]_vars

\* the same while cmd_idx has not overflowed
C18_RotationBeforeOverflow ==
    [][\A w \in Workers :
         (wPC[w] = "send" /\ wPC'[w] = "test" /\ cmd_idx[w] >= 0) =>
             /\ Len(wIssued'[w]) = Len(wIssued[w]) + 1
             /\ wIssued'[w][Len(wIssued'[w])].op
                    = Rotation[IterationMod3(cmd_idx[w]) + 1]]_vars

(***************************************************************************)
(* C19                                                                     *)
(***************************************************************************)
\* the monitor waits in pthread_mutex_lock
MonWaitsForMutex == monPC \in {"lock", "proglock"}

\* C19: the mutex is free or held by the monitor; the step after bugs_found++
\* and log_debug_snapshot, whether the log could be opened or not, is the
\* unlock, which frees the mutex and takes the line loop to the next line of
\* the same iteration; the mutex is free whenever the monitor is outside its
\* two locked regions, at its end and where it waits for the mutex included,
\* so that it never waits for a mutex that is held; and a held mutex is
\* eventually free.
C19_MutexAlwaysReleased ==
    /\ [](mutex \in {"free", "monitor"})
    /\ [][(monPC = "record" /\ monPC' # monPC) =>
            monPC' = "unlock" /\ mutex' = "monitor"]_vars
    /\ [][(monPC = "unlock" /\ monPC' # monPC) =>
            /\ mutex' = "free"
            /\ monPC' = "scan"
            /\ lineIdx' = lineIdx + 1
            /\ iteration' = iteration /\ debug_buffer' = debug_buffer]_vars
    /\ [](monPC \notin {"record", "unlock", "progress"} => mutex = "free")
    /\ [](MonWaitsForMutex => mutex = "free" /\ ENABLED Monitor)
    /\ (mutex = "monitor") ~> (mutex = "free")

\* the log could not be opened for the first flagged line of a feed, and
\* the monitor has gone on to record and log the second
C19_Witness ==
    /\ feed = FeedOdd
    /\ monPC = "unlock"
    /\ recorded = {1, 2}
    /\ logFailures = 1
    /\ Cardinality(EventBlocks(bugLog)) = 1
    /\ bugLog[Len(bugLog)].kind = "event"
    /\ bugLog[Len(bugLog)].iteration = iteration

(***************************************************************************)
(* C20                                                                     *)
(***************************************************************************)
\* the step is one of worker w: its position, handle, counter or record of
\* operations changes, and it is not main creating the thread
WorkerStep(w) ==
    /\ wPC[w] # "none"
    /\ \/ wPC'[w] # wPC[w] \/ wFd'[w] # wFd[w]
       \/ cmd_idx'[w] # cmd_idx[w] \/ wIssued'[w] # wIssued[w]

\* the step is the monitor's bugs_found++ and log_debug_snapshot
RecordStep == monPC = "record" /\ monPC' = "unlock"

\* the step is main's creation of the log, before any thread exists
CreateLogStep ==
    /\ mainPC = "openlog" /\ mainPC' = "setup"
    /\ monPC = "none" /\ \A w \in Workers : wPC[w] = "none"

\* every step of a worker leaves bugs_found, the bug log, iteration and
\* keep_running as they were
WorkerFrame ==
    \A w \in Workers :
        WorkerStep(w) => UNCHANGED <<bugs_found, bugLog, iteration, keep_running>>

\* C20, as claimed: every step of a worker leaves the counter, the log, the
\* monitor's iteration and the flag unchanged, and the counter and the log
\* change only in steps of the monitor.
C20_OnlyMonitorWrites ==
    /\ [][WorkerFrame]_vars
    /\ [][bugs_found' # bugs_found => RecordStep]_vars
    /\ [][bugLog' # bugLog => RecordStep]_vars

\* C20, amended: as above, except that the log changes only in steps of the
\* monitor and in main's creation of it, made before any worker or monitor
\* exists.
C20_OnlyMonitorWritesAfterCreation ==
    /\ [][WorkerFrame]_vars
    /\ [][bugs_found' # bugs_found => RecordStep]_vars
    /\ [][bugLog' # bugLog => RecordStep \/ CreateLogStep]_vars

\* a worker has opened the device, issued an operation and closed it, and
\* the monitor has recorded an event in the log main created
C20_Witness ==
    /\ logCreated
    /\ bugs_found > 0
    /\ EventBlocks(bugLog) # {}
    /\ \E w \in Workers : wFd[w] = "closed" /\ wIssued[w] # <<>>

=============================================================================
